---- MODULE Spec2Model ----
(***************************************************************************)
(* Memory consolidation and context construction of the memory assistant:  *)
(* the Fact Store (table user_profile), the Goal Store (table goals), the  *)
(* upsert and consolidation operations of MemoryService and the extraction *)
(* engine of LLMService.                                                   *)
(*                                                                         *)
(* The stores are the committed contents of the database.  Every operation *)
(* of MemoryService runs in its own SQLAlchemy session, so what a call has *)
(* added or changed reaches the stores only at a commit that succeeds.     *)
(***************************************************************************)
EXTENDS Integers, Sequences, FiniteSets, TLC

\* Python's None (a dict.get of a missing member, an omitted argument, SQL NULL).
None == "<None>"

----------------------------------------------------------------------------
\* Input domains and bounds.

MaxProfileCands == 2
MaxGoalCands == 2
\* The largest goal id handed out.
MaxGoals == 2
\* The number of chat turns.
MaxTurns == 2
\* The number of units of work that run concurrently.
MaxUnits == 2

Keys == {"name", "hobby"}
Values == {"Alice", "Bob"}
\* A category is any string; the empty string is one of them.
Categories == {"", "personal"}
Titles == {"Learn X", "Learn Python"}
Statuses == {"active", "completed", "archived"}

----------------------------------------------------------------------------
\* The session and the tables.

\* Session.commit: the flush writes `pending` in place of `rows`; when the flush
\* or the commit fails the transaction is rolled back and the error is raised.
commit(rows, pending, accepted, storage_error) ==
    IF storage_error \/ ~accepted
    THEN [rows |-> rows, raised |-> TRUE]
    ELSE [rows |-> pending, raised |-> FALSE]

\* Table user_profile without the uniqueness of its primary key.
UserProfile_without_unique_key(rows) ==
    \A p \in rows : p.key # None /\ p.value # None

\* Table user_profile: key is the primary key (NOT NULL, unique), value is
\* Mapped[str] (NOT NULL), category is Optional.
UserProfile(rows) ==
    /\ \A p \in rows : p.key # None /\ p.value # None
    /\ \A p, q \in rows : p.key = q.key => p = q

\* Table goals: title and status are Mapped[str] and progress is Mapped[int]
\* (NOT NULL); id is the integer primary key.
Goal(rows) ==
    /\ \A g \in rows : g.title # None /\ g.status # None /\ g.progress \in Int
    /\ \A g, h \in rows : g.id = h.id => g = h

\* Python truthiness of an Optional[str]: None and "" are falsy.
truthy(s) == s # None /\ s # ""

\* query(UserProfile).filter(UserProfile.key == key): the rows with that key
\* (key == None compiles to IS NULL, which no row satisfies).
get_user_profile(rows, key) == {p \in rows : p.key = key}

\* update_user_profile that keeps the fact it writes and no other.
update_user_profile_sole(rows, key, value, category, storage_error) ==
    LET pending == {[key |-> key, value |-> value, category |-> category]}
    IN commit(rows, pending, UserProfile(pending), storage_error)

\* update_user_profile that leaves a fact that exists as it is.
update_user_profile_insert_only(rows, key, value, category, storage_error) ==
    LET found == get_user_profile(rows, key)
        pending == IF found # {}
                   THEN rows
                   ELSE rows \cup {[key |-> key, value |-> value, category |-> category]}
    IN commit(rows, pending, UserProfile(pending), storage_error)

\* MemoryService.update_user_profile: fetch by key, then update in place or
\* insert, then commit.
update_user_profile(rows, key, value, category, storage_error) ==
    LET found == get_user_profile(rows, key)
        profile == CHOOSE p \in found : TRUE
        updated == [profile EXCEPT !.value = value,
                                   !.category = IF truthy(category) THEN category ELSE @]
        pending == IF found # {}
                   THEN (rows \ {profile}) \cup {updated}
                   ELSE rows \cup {[key |-> key, value |-> value, category |-> category]}
    IN commit(rows, pending, UserProfile(pending), storage_error)

\* query(...).filter(...).delete() and commit: the rows that match are deleted,
\* and their number is the statement's row count.
delete_where(rows, matched) ==
    [rows |-> rows \ matched, deleted_count |-> Cardinality(matched)]

\* MemoryService.delete_user_profile: delete the rows with the key, commit;
\* returns deleted_count > 0.
delete_user_profile(rows, key) ==
    LET res == delete_where(rows, {p \in rows : p.key = key})
    IN [rows |-> res.rows, deleted |-> res.deleted_count > 0]

\* The elements of a list.
elements(list) == {list[i] : i \in DOMAIN list}

\* delete_profiles_batch that returns the length of the list.
delete_profiles_batch_listed(rows, keys) ==
    [rows |-> delete_where(rows, {p \in rows : p.key \in elements(keys)}).rows,
     deleted_count |-> Len(keys)]

\* MemoryService.delete_profiles_batch: one DELETE ... WHERE key IN (keys), then
\* commit; the number of rows the statement deleted is returned.
delete_profiles_batch(rows, keys) ==
    delete_where(rows, {p \in rows : p.key \in elements(keys)})

----------------------------------------------------------------------------
\* Goals.

Max(S) == CHOOSE m \in S : \A x \in S : x <= m

\* The integer primary key of the next row added to table goals.
next_id(rows) == IF rows = {} THEN 1 ELSE Max({g.id : g \in rows}) + 1

\* Goal(...) with the candidate's deadline string passed on.
new_goal_with_deadline(g) ==
    [title |-> g.title, description |-> g.description, deadline |-> g.deadline,
     priority |-> g.priority, status |-> "active", progress |-> 0]

\* Goal(title=..., description=..., priority=...) as save_extracted_information
\* builds it: no deadline is passed; status and progress take the column defaults.
new_goal(g) ==
    [title |-> g.title, description |-> g.description, deadline |-> None,
     priority |-> g.priority, status |-> "active", progress |-> 0]

\* The flush of the goals added to the session, in the order they were added.
RECURSIVE flush_goals(_, _)
flush_goals(rows, added) ==
    IF added = <<>> THEN rows
    ELSE LET g == Head(added)
             row == [id |-> next_id(rows), title |-> g.title,
                     description |-> g.description, deadline |-> g.deadline,
                     priority |-> g.priority, status |-> g.status,
                     progress |-> g.progress]
         IN flush_goals(rows \cup {row}, Tail(added))

\* The duplicate check with the wrong status in its filter.
existing_goal_completed(rows, added, title) ==
    {x \in rows : x.title = title /\ x.status = "completed"}

\* The duplicate check without the filter on status.
existing_goal_any_status(rows, added, title) ==
    {x \in rows : x.title = title}

\* The duplicate check of save_extracted_information: the active goals with the
\* candidate's title.  SessionLocal has autoflush=False, so the query reads the
\* table and not the goals added to the session earlier in the call.
existing_goal(rows, added, title) ==
    {x \in rows : x.title = title /\ x.status = "active"}

\* The goals loop without its duplicate check.
RECURSIVE goals_loop_no_check(_, _, _)
goals_loop_no_check(rows, cands, added) ==
    IF cands = <<>> THEN added
    ELSE goals_loop_no_check(rows, Tail(cands), Append(added, new_goal(Head(cands))))

\* The goals loop of save_extracted_information: the goals it adds to the session.
RECURSIVE goals_loop(_, _, _)
goals_loop(rows, cands, added) ==
    IF cands = <<>> THEN added
    ELSE LET g == Head(cands)
         IN goals_loop(rows, Tail(cands),
                       IF existing_goal(rows, added, g.title) = {}
                       THEN Append(added, new_goal(g))
                       ELSE added)

\* A member of the extraction result as dict.get(name, []) reads it: a list of
\* candidate dicts, a missing member (the default []), or a non-empty str, whose
\* iteration yields characters, on which .get raises AttributeError.
list_of(items) == [type |-> "list", items |-> items]
missing == [type |-> "missing"]
a_str == [type |-> "str"]
iterable(member) == IF member.type = "list" THEN member.items ELSE <<>>
item_error(member) == member.type = "str"

\* Python truthiness of dict.get(name): a missing member (None) and [] are falsy.
member_truthy(member) ==
    \/ member.type = "str"
    \/ member.type = "list" /\ member.items # <<>>

\* The profile loop with each upsert in a try that logs and goes on.
RECURSIVE profile_loop_swallow(_, _, _, _)
profile_loop_swallow(rows, cands, i, fail_at) ==
    IF cands = <<>> THEN [rows |-> rows, raised |-> FALSE, applied |-> 0]
    ELSE LET p == Head(cands)
             res == update_user_profile(rows, p.key, p.value, p.category, fail_at = i)
         IN profile_loop_swallow(res.rows, Tail(cands), i + 1, fail_at)

\* The profile loop of save_extracted_information: one update_user_profile, and so
\* one commit, per candidate, in list order; an exception ends the call.
\* `i` numbers the commit; commit number `fail_at` meets a storage error.
RECURSIVE profile_loop(_, _, _, _)
profile_loop(rows, cands, i, fail_at) ==
    IF cands = <<>> THEN [rows |-> rows, raised |-> FALSE, applied |-> i - 1]
    ELSE LET p == Head(cands)
             res == update_user_profile(rows, p.key, p.value, p.category, fail_at = i)
         IN IF res.raised
            THEN [rows |-> res.rows, raised |-> TRUE, applied |-> i - 1]
            ELSE profile_loop(res.rows, Tail(cands), i + 1, fail_at)

\* MemoryService.save_extracted_information on the stores (profiles, goal_rows):
\* the stores afterwards, whether the call raised, and how many profile
\* candidates were applied.
save_extracted_information(profiles, goal_rows, extraction_result, fail_at) ==
    LET cands == iterable(extraction_result.user_profile)
        facts == profile_loop(profiles, cands, 1, fail_at)
        added == goals_loop(goal_rows, iterable(extraction_result.goals), <<>>)
        pending == flush_goals(goal_rows, added)
        last == commit(goal_rows, pending, Goal(pending), fail_at = Len(cands) + 1)
    IN IF item_error(extraction_result.user_profile)
       THEN [user_profile |-> profiles, goals |-> goal_rows, raised |-> TRUE,
             applied |-> 0]
       ELSE IF facts.raised \/ item_error(extraction_result.goals)
       THEN [user_profile |-> facts.rows, goals |-> goal_rows, raised |-> TRUE,
             applied |-> facts.applied]
       ELSE [user_profile |-> facts.rows, goals |-> last.rows, raised |-> last.raised,
             applied |-> facts.applied]

----------------------------------------------------------------------------
\* Direct operations on goals.

\* create_goal that adds nothing when an active goal has the title.
create_goal_dedup(rows, goal_data, storage_error) ==
    LET pending == IF existing_goal(rows, <<>>, goal_data.title) = {}
                   THEN flush_goals(rows, <<goal_data>>) ELSE rows
    IN commit(rows, pending, Goal(pending), storage_error)

\* MemoryService.create_goal: Goal(**goal_data.model_dump()), add, commit.
create_goal(rows, goal_data, storage_error) ==
    LET pending == flush_goals(rows, <<goal_data>>)
    IN commit(rows, pending, Goal(pending), storage_error)

\* update_goal that writes every field of the request, the ones that were not
\* set with their default None.
update_goal_replacing(rows, goal_id, update_data, storage_error) ==
    LET found == {g \in rows : g.id = goal_id}
        goal == CHOOSE g \in found : TRUE
        updated == [f \in DOMAIN goal |->
                        IF f = "id" THEN goal.id
                        ELSE IF f \in DOMAIN update_data THEN update_data[f] ELSE None]
        pending == (rows \ {goal}) \cup {updated}
        done == commit(rows, pending, Goal(pending), storage_error)
    IN IF found = {}
       THEN [rows |-> rows, raised |-> FALSE, found |-> FALSE]
       ELSE [rows |-> done.rows, raised |-> done.raised, found |-> TRUE]

\* MemoryService.update_goal: setattr of every field that was set in the request
\* (update_data maps the names of those fields to their values), then commit;
\* None, and no change, when no goal has the id.
update_goal(rows, goal_id, update_data, storage_error) ==
    LET found == {g \in rows : g.id = goal_id}
        goal == CHOOSE g \in found : TRUE
        updated == [f \in DOMAIN goal |->
                        IF f \in DOMAIN update_data THEN update_data[f] ELSE goal[f]]
        pending == (rows \ {goal}) \cup {updated}
        done == commit(rows, pending, Goal(pending), storage_error)
    IN IF found = {}
       THEN [rows |-> rows, raised |-> FALSE, found |-> FALSE]
       ELSE [rows |-> done.rows, raised |-> done.raised, found |-> TRUE]

\* delete_goal that, when no goal has the id, deletes the goal added last.
delete_goal_or_last(rows, goal_id) ==
    LET matched == {g \in rows : g.id = goal_id}
        last == {g \in rows : g.id = Max({h.id : h \in rows})}
        res == delete_where(rows, IF matched = {} THEN last ELSE matched)
    IN [rows |-> res.rows, deleted |-> matched # {}]

\* MemoryService.delete_goal: delete the rows with the id, commit; returns
\* deleted_count > 0.
delete_goal(rows, goal_id) ==
    LET res == delete_where(rows, {g \in rows : g.id = goal_id})
    IN [rows |-> res.rows, deleted |-> res.deleted_count > 0]

\* delete_goals_batch for which an empty list selects every goal.
delete_goals_batch_unfiltered(rows, ids) ==
    delete_where(rows, {g \in rows : ids = <<>> \/ g.id \in elements(ids)})

\* MemoryService.delete_goals_batch: one DELETE ... WHERE id IN (ids), commit;
\* returns the row count.
delete_goals_batch(rows, ids) ==
    delete_where(rows, {g \in rows : g.id \in elements(ids)})

----------------------------------------------------------------------------
\* The Conversation Log.

\* save_conversation that records the turn as consolidated.
save_conversation_consolidated(rows, user_message, assistant_message, storage_error) ==
    commit(rows, rows \cup {[id |-> next_id(rows), user_message |-> user_message,
                             assistant_message |-> assistant_message,
                             consolidated |-> TRUE, importance_score |-> 0]},
           TRUE, storage_error)

\* save_conversation that commits without having added the turn.
save_conversation_unrecorded(rows, user_message, assistant_message, storage_error) ==
    commit(rows, rows, TRUE, storage_error)

\* MemoryService.save_conversation: Conversation(user_message=...,
\* assistant_message=..., importance_score=0.0), add, commit, refresh; the
\* consolidated flag takes the column default False.
save_conversation(rows, user_message, assistant_message, storage_error) ==
    LET conversation == [id |-> next_id(rows), user_message |-> user_message,
                         assistant_message |-> assistant_message,
                         consolidated |-> FALSE, importance_score |-> 0]
    IN commit(rows, rows \cup {conversation}, TRUE, storage_error)

\* MemoryService.delete_conversation: delete the rows with the id, commit;
\* returns deleted_count > 0.
delete_conversation(rows, conversation_id) ==
    LET res == delete_where(rows, {c \in rows : c.id = conversation_id})
    IN [rows |-> res.rows, deleted |-> res.deleted_count > 0]

\* MemoryService.delete_conversations_batch: one DELETE ... WHERE id IN (ids),
\* commit; returns the row count.
delete_conversations_batch(rows, ids) ==
    delete_where(rows, {c \in rows : c.id \in elements(ids)})

----------------------------------------------------------------------------
\* The context builder.

\* The order in which a scan of table user_profile yields the keys.  The query
\* has no ORDER BY; the engine yields the rows of a given table in one order,
\* fixed here as an order of the keys.
scan_order == <<"name", "hobby">>

\* MemoryService.get_all_user_profiles: query(UserProfile).all(), a list.
RECURSIVE scan(_, _)
scan(rows, order) ==
    IF order = <<>> THEN <<>>
    ELSE LET here == get_user_profile(rows, Head(order))
         IN (IF here = {} THEN <<>> ELSE <<CHOOSE p \in here : TRUE>>)
            \o scan(rows, Tail(order))

\* get_all_user_profiles that yields the first row only.
get_all_user_profiles_first(rows) ==
    IF scan(rows, scan_order) = <<>> THEN <<>> ELSE <<Head(scan(rows, scan_order))>>

get_all_user_profiles(rows) == scan(rows, scan_order)

\* The rows of table goals in the order of a scan: by id, the rowid.
RECURSIVE by_id(_)
by_id(rows) ==
    IF rows = {} THEN <<>>
    ELSE LET first == CHOOSE g \in rows : \A h \in rows : g.id <= h.id
         IN <<first>> \o by_id(rows \ {first})

\* get_active_goals without the filter on status.
get_active_goals_unfiltered(rows) == by_id(rows)

\* MemoryService.get_active_goals: query(Goal).filter(Goal.status == 'active').all().
get_active_goals(rows) == by_id({g \in rows : g.status = "active"})

\* "\n".join(parts)
RECURSIVE join(_)
join(parts) ==
    IF parts = <<>> THEN ""
    ELSE IF Len(parts) = 1 THEN parts[1]
    ELSE parts[1] \o "\n" \o join(Tail(parts))

\* f"- {p.key}: {p.value}"
profile_line(p) == "- " \o p.key \o ": " \o p.value

\* f"- {g.title} {deadline}: {g.description or ''}" with
\* deadline = f"(Deadline: {g.deadline})" if g.deadline else "".
goal_line(g) ==
    LET deadline == IF g.deadline # None THEN "(Deadline: " \o g.deadline \o ")" ELSE ""
        description == IF truthy(g.description) THEN g.description ELSE ""
    IN "- " \o g.title \o " " \o deadline \o ": " \o description

\* construct_system_context whose goals header has no separator before it.
construct_system_context_unseparated(profile_rows, goal_rows) ==
    LET profiles == get_all_user_profiles(profile_rows)
        active_goals == get_active_goals(goal_rows)
        profile_parts ==
            IF profiles # <<>>
            THEN <<"## User Profile Information:">>
                 \o [i \in 1..Len(profiles) |-> profile_line(profiles[i])]
            ELSE <<>>
        goal_parts ==
            IF active_goals # <<>>
            THEN <<"## Current Goals:">>
                 \o [i \in 1..Len(active_goals) |-> goal_line(active_goals[i])]
            ELSE <<>>
    IN join(profile_parts \o goal_parts)

\* MemoryService.construct_system_context on the stores: the string it returns.
construct_system_context(profile_rows, goal_rows) ==
    LET profiles == get_all_user_profiles(profile_rows)
        active_goals == get_active_goals(goal_rows)
        profile_parts ==
            IF profiles # <<>>
            THEN <<"## User Profile Information:">>
                 \o [i \in 1..Len(profiles) |-> profile_line(profiles[i])]
            ELSE <<>>
        goal_parts ==
            IF active_goals # <<>>
            THEN <<"\n## Current Goals:">>
                 \o [i \in 1..Len(active_goals) |-> goal_line(active_goals[i])]
            ELSE <<>>
    IN join(profile_parts \o goal_parts)

----------------------------------------------------------------------------
\* The extraction engine.

\* json.loads of the model's text: the document, or JSONDecodeError.
json_loads(content) ==
    IF content.valid THEN [raised |-> FALSE, value |-> content.doc]
    ELSE [raised |-> TRUE, value |-> None]

\* {"user_profile": [], "goals": []}
empty_result == [type |-> "dict", user_profile |-> list_of(<<>>), goals |-> list_of(<<>>)]

\* extract_information with json.loads outside the try.
extract_information_unguarded(response) ==
    IF response.raised
    THEN [raised |-> FALSE, value |-> empty_result]
    ELSE json_loads(response.content)

\* LLMService.extract_information: the call to the model and json.loads inside
\* one try; any Exception is caught and the empty result returned.
extract_information(response) ==
    IF response.raised
    THEN [raised |-> FALSE, value |-> empty_result]
    ELSE IF json_loads(response.content).raised
    THEN [raised |-> FALSE, value |-> empty_result]
    ELSE [raised |-> FALSE, value |-> json_loads(response.content).value]

----------------------------------------------------------------------------
\* State.
\*   user_profile  the rows of table user_profile (the Fact Store)
\*   goals         the rows of table goals (the Goal Store)
\*   call          the call that has just ended, with its arguments and outcome,
\*                 until its caller has taken the outcome; idle otherwise
\*   written       per key, the value of the last upsert applied to it since the
\*                 key was last deleted (None when there is none)
\*   extraction    the last run of the extraction engine: the model's response
\*                 and what extract_information returned

\*   conversations the rows of table conversations (the Conversation Log)
\*   turn          the chat request that is being handled, with the step it is at
\*   tasks         per chat turn, its background task: the step it is at, its
\*                 session, and what it has done
\*   last_writer   the chat turn whose background task was the last unit of work
\*                 to write to the Fact Store or the Goal Store; 0 when the last
\*                 writer was no background task

\*   responses     per chat turn, the response that was sent for it
\*   units         the units of work (requests, background consolidations) that
\*                 run concurrently, each in its own session, with the step each
\*                 is at and what it has read

VARIABLES user_profile, goals, call, written, extraction,
          conversations, turn, tasks, responses, last_writer, units

vars == <<user_profile, goals, call, written, extraction,
          conversations, turn, tasks, responses, last_writer, units>>

chat_vars == <<conversations, turn, tasks, responses>>

idle == [op |-> "idle", raised |-> FALSE]

Init ==
    /\ user_profile = {}
    /\ goals = {}
    /\ call = idle
    /\ written = [k \in Keys |-> None]
    /\ extraction = [ran |-> FALSE]
    /\ conversations = {}
    /\ turn = [pc |-> "none", n |-> 0]
    /\ tasks = [n \in 1..MaxTurns |-> [pc |-> "none"]]
    /\ responses = [n \in 1..MaxTurns |-> [status |-> 0]]
    /\ last_writer = 0
    /\ units = [u \in 1..MaxUnits |-> [pc |-> "none"]]

\* The value of the last candidate of `cands` with key k, or `old` without one.
RECURSIVE last_value(_, _, _)
last_value(cands, k, old) ==
    IF cands = <<>> THEN old
    ELSE last_value(Tail(cands), k, IF Head(cands).key = k THEN Head(cands).value ELSE old)

\* `written` after the first n of the profile candidates of a result were applied.
written_after(old, extraction_result, n) ==
    [k \in Keys |->
        last_value(SubSeq(iterable(extraction_result.user_profile), 1, n), k, old[k])]

\* POST /api/profiles: one direct upsert.
create_profile(key, value, category, storage_error) ==
    LET res == update_user_profile(user_profile, key, value, category, storage_error)
    IN /\ call = idle
       /\ user_profile' = res.rows
       /\ call' = [op |-> "update_user_profile", key |-> key, value |-> value,
                   category |-> category, storage_error |-> storage_error,
                   raised |-> res.raised]
       /\ written' = IF res.raised THEN written
                     ELSE [written EXCEPT ![key] = value]
       /\ UNCHANGED <<goals, extraction>>
       /\ last_writer' = 0
       /\ UNCHANGED chat_vars
       /\ UNCHANGED units

\* DELETE /api/profiles/{key}.
delete_profile(key) ==
    /\ call = idle
    /\ user_profile' = delete_user_profile(user_profile, key).rows
    /\ call' = [op |-> "delete_user_profile", key |-> key, raised |-> FALSE,
                deleted |-> delete_user_profile(user_profile, key).deleted]
    /\ written' = [written EXCEPT ![key] = None]
    /\ UNCHANGED <<goals, extraction>>
    /\ last_writer' = 0
    /\ UNCHANGED chat_vars
    /\ UNCHANGED units

\* One call of save_extracted_information, as its caller sees it.
consolidate(extraction_result, fail_at) ==
    LET res == save_extracted_information(user_profile, goals, extraction_result, fail_at)
    IN /\ call = idle
       /\ next_id(goals) + Len(iterable(extraction_result.goals)) - 1 <= MaxGoals
       /\ user_profile' = res.user_profile
       /\ goals' = res.goals
       /\ call' = [op |-> "save_extracted_information", result |-> extraction_result,
                   fail_at |-> fail_at, raised |-> res.raised, applied |-> res.applied,
                   inserted |-> res.goals \ goals]
       /\ written' = written_after(written, extraction_result, res.applied)
       /\ UNCHANGED extraction
       /\ last_writer' = 0
       /\ UNCHANGED chat_vars
       /\ UNCHANGED units

\* Two calls of save_extracted_information on the same extraction result, one
\* right after the other; `first` is the Goal Store between the two.
consolidate_twice(extraction_result) ==
    LET one == save_extracted_information(user_profile, goals, extraction_result, 0)
        two == save_extracted_information(one.user_profile, one.goals,
                                          extraction_result, 0)
    IN /\ call = idle
       /\ next_id(goals) + Len(iterable(extraction_result.goals)) - 1 <= MaxGoals
       /\ user_profile' = two.user_profile
       /\ goals' = two.goals
       /\ call' = [op |-> "save_extracted_information twice",
                   result |-> extraction_result, from_empty |-> (goals = {}),
                   first |-> one.goals, first_raised |-> one.raised,
                   raised |-> two.raised]
       /\ written' = written_after(written_after(written, extraction_result, one.applied),
                                   extraction_result, two.applied)
       /\ UNCHANGED extraction
       /\ last_writer' = 0
       /\ UNCHANGED chat_vars
       /\ UNCHANGED units

\* POST /api/goals.
post_goal(goal_data, storage_error) ==
    LET res == create_goal(goals, goal_data, storage_error)
    IN /\ call = idle
       /\ next_id(goals) <= MaxGoals
       /\ goals' = res.rows
       /\ call' = [op |-> "create_goal", goal_data |-> goal_data, raised |-> res.raised]
       /\ UNCHANGED <<user_profile, written, extraction>>
       /\ last_writer' = 0
       /\ UNCHANGED chat_vars
       /\ UNCHANGED units

\* PUT /api/goals/{goal_id}.
put_goal(goal_id, update_data, storage_error) ==
    LET res == update_goal(goals, goal_id, update_data, storage_error)
    IN /\ call = idle
       /\ goals' = res.rows
       /\ call' = [op |-> "update_goal", goal_id |-> goal_id, update_data |-> update_data,
                   storage_error |-> storage_error,
                   raised |-> res.raised, found |-> res.found]
       /\ UNCHANGED <<user_profile, written, extraction>>
       /\ last_writer' = 0
       /\ UNCHANGED chat_vars
       /\ UNCHANGED units

\* DELETE /api/goals/{goal_id}.
remove_goal(goal_id) ==
    /\ call = idle
    /\ goals' = delete_goal(goals, goal_id).rows
    /\ call' = [op |-> "delete_goal", goal_id |-> goal_id, raised |-> FALSE,
                deleted |-> delete_goal(goals, goal_id).deleted]
    /\ UNCHANGED <<user_profile, written, extraction>>
    /\ last_writer' = 0
    /\ UNCHANGED chat_vars
    /\ UNCHANGED units

\* The background task process_information_extraction on the model's response to
\* the extraction prompt: extract, then save when either member is truthy; any
\* Exception (in .get on a value that is no dict, or out of the save) is caught.
process_information_extraction(response, fail_at) ==
    LET extracted == extract_information(response)
        result == extracted.value
        is_dict == ~extracted.raised /\ result.type = "dict"
        saves == is_dict /\ (member_truthy(result.user_profile)
                              \/ member_truthy(result.goals))
        res == save_extracted_information(user_profile, goals, result, fail_at)
    IN /\ call = idle
       /\ saves => next_id(goals) + Len(iterable(result.goals)) - 1 <= MaxGoals
       /\ extraction' = [ran |-> TRUE, response |-> response,
                         raised |-> extracted.raised, returned |-> result]
       /\ user_profile' = IF saves THEN res.user_profile ELSE user_profile
       /\ goals' = IF saves THEN res.goals ELSE goals
       /\ call' = [op |-> "process_information_extraction", raised |-> FALSE,
                   saved |-> saves,
                   failed |-> (~is_dict \/ (saves /\ res.raised))]
       /\ written' = IF saves THEN written_after(written, result, res.applied)
                     ELSE written
       /\ last_writer' = 0
       /\ UNCHANGED chat_vars
       /\ UNCHANGED units

\* A context build that also marks the recorded turns as consolidated.
build_context_consolidating ==
    /\ call = idle
    /\ call' = [op |-> "construct_system_context", raised |-> FALSE,
                returned |-> construct_system_context(user_profile, goals)]
    /\ conversations' = {[c EXCEPT !.consolidated = TRUE] : c \in conversations}
    /\ UNCHANGED <<user_profile, goals, written, extraction, turn, tasks, responses,
                   last_writer>>
    /\ UNCHANGED units

\* One call of construct_system_context, as its caller sees it: two queries and
\* no write.
build_context ==
    /\ call = idle
    /\ call' = [op |-> "construct_system_context", raised |-> FALSE,
                returned |-> construct_system_context(user_profile, goals)]
    /\ UNCHANGED <<user_profile, goals, written, extraction, last_writer>>
    /\ UNCHANGED chat_vars
    /\ UNCHANGED units

\* Two calls of construct_system_context with no write in between.
build_context_twice ==
    /\ call = idle
    /\ call' = [op |-> "construct_system_context twice", raised |-> FALSE,
                first |-> construct_system_context(user_profile, goals),
                second |-> construct_system_context(user_profile, goals)]
    /\ UNCHANGED <<user_profile, goals, written, extraction, last_writer>>
    /\ UNCHANGED chat_vars
    /\ UNCHANGED units

\* One call of save_conversation, as its caller sees it.
record_conversation(user_message, assistant_message, storage_error) ==
    LET res == save_conversation(conversations, user_message, assistant_message,
                                 storage_error)
    IN /\ call = idle
       /\ next_id(conversations) <= MaxTurns
       /\ conversations' = res.rows
       /\ call' = [op |-> "save_conversation", raised |-> res.raised]
       /\ UNCHANGED <<user_profile, goals, written, extraction, turn, tasks,
                      responses, last_writer>>
       /\ UNCHANGED units

----------------------------------------------------------------------------
\* The chat turn (POST /chat) and its background task.  The handler is a
\* coroutine that never awaits, so one chat request is handled at a time; the
\* background task is a plain function, which the server runs on a worker thread
\* after the response was sent, while later requests are handled.

\* A chat_start that registers the background task at once.
chat_start_scheduling(message) ==
    /\ turn.pc = "none"
    /\ turn.n < MaxTurns
    /\ turn' = [pc |-> "start", n |-> turn.n + 1, message |-> message, db |-> "open"]
    /\ tasks' = [tasks EXCEPT ![turn.n + 1] =
                    [pc |-> "scheduled", user_message |-> message]]
    /\ responses' = [responses EXCEPT ![turn.n + 1] = [status |-> 200]]
    /\ UNCHANGED <<user_profile, goals, call, written, extraction, conversations,
                   last_writer>>
    /\ UNCHANGED units

\* Depends(get_db) opens the session of the request and the handler starts.
chat_start(message) ==
    /\ turn.pc = "none"
    /\ turn.n < MaxTurns
    /\ turn' = [pc |-> "start", n |-> turn.n + 1, message |-> message, db |-> "open"]
    /\ UNCHANGED <<user_profile, goals, call, written, extraction, conversations,
                   tasks, responses, last_writer>>
    /\ UNCHANGED units

\* A context step that reads nothing and injects no memory.
chat_context_unread ==
    /\ turn.pc = "start"
    /\ turn' = [pc |-> "context", n |-> turn.n, message |-> turn.message,
                db |-> turn.db,
                memory_context |-> "",
                last_writer |-> last_writer,
                task_done |-> (turn.n > 1 /\ tasks[turn.n - 1].pc = "done")]
    /\ UNCHANGED <<user_profile, goals, call, written, extraction, conversations,
                   tasks, responses, last_writer>>
    /\ UNCHANGED units

\* memory_context = memory_service.construct_system_context(), through the
\* session of the request.  `last_writer` and `task_done` record who wrote last
\* to the stores that are read, and whether the task of the turn before had ended.
chat_context ==
    /\ turn.pc = "start"
    /\ turn' = [pc |-> "context", n |-> turn.n, message |-> turn.message,
                db |-> turn.db,
                memory_context |-> construct_system_context(user_profile, goals),
                last_writer |-> last_writer,
                task_done |-> (turn.n > 1 /\ tasks[turn.n - 1].pc = "done")]
    /\ UNCHANGED <<user_profile, goals, call, written, extraction, conversations,
                   tasks, responses, last_writer>>
    /\ UNCHANGED units

\* The response of a turn that ends in the except clause:
\* HTTPException(status_code=500, detail=f"Error: {str(e)}").
error_response(e) == [status |-> 500, detail |-> "Error: " \o e]

\* The system prompt of the chat model call: the base prompt, followed by the
\* memory context when there is one.
base_system_prompt == "You are a friendly, slightly forgetful AI assistant."

system_prompt(memory_context) ==
    IF memory_context # ""
    THEN base_system_prompt \o "\n\nHere is what you know about the user and their goals (use this to personalize your response):\n" \o memory_context
    ELSE base_system_prompt

\* A chat model step that, when the model call fails, still schedules the
\* extraction of the message.
chat_model_scheduling(raised, reply) ==
    /\ turn.pc = "context"
    /\ IF raised
       THEN /\ turn' = [pc |-> "none", n |-> turn.n]
            /\ responses' = [responses EXCEPT ![turn.n] = error_response("model unreachable")]
            /\ tasks' = [tasks EXCEPT ![turn.n] =
                            [pc |-> "scheduled", user_message |-> turn.message]]
       ELSE /\ turn' = [turn EXCEPT !.pc = "replied"]
                       @@ [reply |-> reply, system_prompt |-> system_prompt(turn.memory_context)]
            /\ UNCHANGED <<responses, tasks>>
    /\ UNCHANGED <<user_profile, goals, call, written, extraction, conversations,
                   last_writer>>
    /\ UNCHANGED units

\* llm_service.chat(message, model, system_prompt): the reply, or the exception
\* of the model client, which LLMService.chat raises again and the handler
\* turns into a 500 response.
chat_model(raised, reply) ==
    /\ turn.pc = "context"
    /\ IF raised
       THEN /\ turn' = [pc |-> "none", n |-> turn.n]
            /\ responses' = [responses EXCEPT ![turn.n] = error_response("model unreachable")]
       ELSE /\ turn' = [turn EXCEPT !.pc = "replied"]
                       @@ [reply |-> reply, system_prompt |-> system_prompt(turn.memory_context)]
            /\ UNCHANGED responses
    /\ UNCHANGED <<user_profile, goals, call, written, extraction, conversations,
                   tasks, last_writer>>
    /\ UNCHANGED units

\* memory_service.save_conversation(user_message=..., assistant_message=...).
chat_save(storage_error) ==
    LET res == save_conversation(conversations, turn.message, turn.reply, storage_error)
    IN /\ turn.pc = "replied"
       /\ conversations' = res.rows
       /\ IF res.raised
          THEN /\ turn' = [pc |-> "none", n |-> turn.n]
               /\ responses' = [responses EXCEPT ![turn.n] = error_response("storage error")]
          ELSE /\ turn' = [turn EXCEPT !.pc = "saved"]
               /\ UNCHANGED responses
       /\ UNCHANGED <<user_profile, goals, call, written, extraction, tasks,
                      last_writer>>
       /\ UNCHANGED units

\* background_tasks.add_task(process_information_extraction, request.message, db).
chat_schedule ==
    /\ turn.pc = "saved"
    /\ turn' = [turn EXCEPT !.pc = "scheduled"]
    /\ tasks' = [tasks EXCEPT ![turn.n] =
                    [pc |-> "scheduled", user_message |-> turn.message]]
    /\ UNCHANGED <<user_profile, goals, call, written, extraction, conversations,
                   responses, last_writer>>
    /\ UNCHANGED units

\* return schemas.ChatResponse(response=assistant_message, ...); the session of
\* the request is closed by get_db.
chat_return ==
    /\ turn.pc = "scheduled"
    /\ turn' = [pc |-> "none", n |-> turn.n]
    /\ responses' = [responses EXCEPT ![turn.n] =
                        [status |-> 200, response |-> turn.reply]]
    /\ UNCHANGED <<user_profile, goals, call, written, extraction, conversations,
                   tasks, last_writer>>
    /\ UNCHANGED units

\* The background task of turn n starts, after the response was sent:
\* new_db = SessionLocal(); memory_service = MemoryService(new_db).
task_open(n) ==
    /\ tasks[n].pc = "scheduled"
    /\ responses[n].status = 200
    /\ tasks' = [tasks EXCEPT ![n] =
                    [pc |-> "running", user_message |-> tasks[n].user_message,
                     new_db |-> "open", memory_service |-> "new_db",
                     extractions |-> 0, saves |-> 0, failed |-> FALSE]]
    /\ UNCHANGED <<user_profile, goals, call, written, extraction, conversations,
                   turn, responses, last_writer>>
    /\ UNCHANGED units

\* extraction_result = llm_service.extract_information(user_message); the step
\* is there once the model call has returned or raised.
task_extract(n, response) ==
    /\ tasks[n].pc = "running"
    /\ tasks' = [tasks EXCEPT ![n] =
                    [@ EXCEPT !.pc = "extracted", !.extractions = @ + 1]
                    @@ [result |-> extract_information(response).value]]
    /\ UNCHANGED <<user_profile, goals, call, written, extraction, conversations,
                   turn, responses, last_writer>>
    /\ UNCHANGED units

\* What a call of save_extracted_information has written: per key the value of
\* the last candidate applied, and the goals inserted.
wrote(extraction_result, res, goal_rows) ==
    [facts |-> {[key |-> k,
                 value |-> last_value(SubSeq(iterable(extraction_result.user_profile),
                                             1, res.applied), k, None)] :
                  k \in {c \in Keys :
                          last_value(SubSeq(iterable(extraction_result.user_profile),
                                            1, res.applied), c, None) # None}},
     goals |-> res.goals \ goal_rows]

\* A task whose except clause starts the extraction over.
task_save_retry(n, fail_at) ==
    LET result == tasks[n].result
        is_dict == result.type = "dict"
        saves == is_dict /\ (member_truthy(result.user_profile)
                              \/ member_truthy(result.goals))
        res == save_extracted_information(user_profile, goals, result, fail_at)
        failed == ~is_dict \/ (saves /\ res.raised)
    IN /\ tasks[n].pc = "extracted"
       /\ saves => next_id(goals) + Len(iterable(result.goals)) - 1 <= MaxGoals
       /\ user_profile' = IF saves THEN res.user_profile ELSE user_profile
       /\ goals' = IF saves THEN res.goals ELSE goals
       /\ written' = IF saves THEN written_after(written, result, res.applied)
                     ELSE written
       /\ last_writer' = IF saves THEN n ELSE last_writer
       /\ tasks' = [tasks EXCEPT ![n] =
                       [pc |-> IF failed THEN "running" ELSE "finished",
                        user_message |-> @.user_message,
                        new_db |-> @.new_db, memory_service |-> @.memory_service,
                        extractions |-> @.extractions,
                        saves |-> @.saves + (IF saves THEN 1 ELSE 0),
                        failed |-> failed,
                        wrote |-> IF saves THEN wrote(result, res, goals)
                                  ELSE [facts |-> {}, goals |-> {}]]]
       /\ UNCHANGED <<call, extraction, conversations, turn, responses>>
       /\ UNCHANGED units

\* The rest of the try block of the task and its except clause: save when either
\* member of the result is truthy; any Exception (out of .get on a result that
\* is no dict, or out of the save) is caught and logged.
task_save(n, fail_at) ==
    LET result == tasks[n].result
        is_dict == result.type = "dict"
        saves == is_dict /\ (member_truthy(result.user_profile)
                              \/ member_truthy(result.goals))
        res == save_extracted_information(user_profile, goals, result, fail_at)
        failed == ~is_dict \/ (saves /\ res.raised)
    IN /\ tasks[n].pc = "extracted"
       /\ saves => next_id(goals) + Len(iterable(result.goals)) - 1 <= MaxGoals
       /\ user_profile' = IF saves THEN res.user_profile ELSE user_profile
       /\ goals' = IF saves THEN res.goals ELSE goals
       /\ written' = IF saves THEN written_after(written, result, res.applied)
                     ELSE written
       /\ last_writer' = IF saves THEN n ELSE last_writer
       /\ tasks' = [tasks EXCEPT ![n] =
                       [pc |-> "finished", user_message |-> @.user_message,
                        new_db |-> @.new_db, memory_service |-> @.memory_service,
                        extractions |-> @.extractions,
                        saves |-> @.saves + (IF saves THEN 1 ELSE 0),
                        failed |-> failed,
                        wrote |-> IF saves THEN wrote(result, res, goals)
                                  ELSE [facts |-> {}, goals |-> {}]]]
       /\ UNCHANGED <<call, extraction, conversations, turn, responses>>
       /\ UNCHANGED units

\* A finally clause that closes the session only after a run without failure.
task_close_unless_failed(n) ==
    /\ tasks[n].pc = "finished"
    /\ tasks' = [tasks EXCEPT ![n] =
                    [@ EXCEPT !.pc = "done",
                              !.new_db = IF tasks[n].failed THEN "open" ELSE "closed"]]
    /\ UNCHANGED <<user_profile, goals, call, written, extraction, conversations,
                   turn, responses, last_writer>>
    /\ UNCHANGED units

\* finally: new_db.close(), on every path out of the try.
task_close(n) ==
    /\ tasks[n].pc = "finished"
    /\ tasks' = [tasks EXCEPT ![n] = [@ EXCEPT !.pc = "done", !.new_db = "closed"]]
    /\ UNCHANGED <<user_profile, goals, call, written, extraction, conversations,
                   turn, responses, last_writer>>
    /\ UNCHANGED units

\* DELETE /api/conversations/{conversation_id}.
remove_conversation(conversation_id) ==
    LET res == delete_conversation(conversations, conversation_id)
    IN /\ call = idle
       /\ conversations' = res.rows
       /\ call' = [op |-> "delete_conversation", conversation_id |-> conversation_id,
                   raised |-> FALSE, deleted |-> res.deleted]
       /\ UNCHANGED <<user_profile, goals, written, extraction, turn, tasks,
                      responses, last_writer>>
       /\ UNCHANGED units

\* POST /api/goals/batch-delete.
batch_delete_goals(ids) ==
    LET res == delete_goals_batch(goals, ids)
    IN /\ call = idle
       /\ goals' = res.rows
       /\ call' = [op |-> "delete_goals_batch", ids |-> ids, raised |-> FALSE,
                   deleted_count |-> res.deleted_count]
       /\ last_writer' = 0
       /\ UNCHANGED <<user_profile, written, extraction>>
       /\ UNCHANGED chat_vars
       /\ UNCHANGED units

\* POST /api/conversations/batch-delete.
batch_delete_conversations(ids) ==
    LET res == delete_conversations_batch(conversations, ids)
    IN /\ call = idle
       /\ conversations' = res.rows
       /\ call' = [op |-> "delete_conversations_batch", ids |-> ids, raised |-> FALSE,
                   deleted_count |-> res.deleted_count]
       /\ UNCHANGED <<user_profile, goals, written, extraction, turn, tasks,
                      responses, last_writer>>
       /\ UNCHANGED units

\* POST /api/profiles/batch-delete.
batch_delete_profiles(keys) ==
    LET res == delete_profiles_batch(user_profile, keys)
    IN /\ call = idle
       /\ user_profile' = res.rows
       /\ call' = [op |-> "delete_profiles_batch", keys |-> keys, raised |-> FALSE,
                   deleted_count |-> res.deleted_count]
       /\ written' = [k \in Keys |-> IF k \in elements(keys) THEN None ELSE written[k]]
       /\ last_writer' = 0
       /\ UNCHANGED <<goals, extraction>>
       /\ UNCHANGED chat_vars
       /\ UNCHANGED units

----------------------------------------------------------------------------
\* Units of work that run concurrently.  A background consolidation runs on a
\* worker thread, so its statements interleave with those of other background
\* consolidations and of the request being handled; the handlers themselves are
\* coroutines that never await, so one request is handled at a time.  Each unit
\* has its own session; a SELECT reads the committed tables, and the statements
\* a unit flushes are committed in one step.  A unit takes its steps between the
\* calls that are modelled whole, once the caller of such a call has its outcome.

in_progress(u) == units[u].pc \notin {"none", "done", "raised"}

\* A request starts update_user_profile(key, value, category).
start_upsert(u, key, value, category) ==
    /\ call = idle
    /\ units[u].pc = "none"
    /\ \A v \in 1..MaxUnits : in_progress(v) => units[v].kind = "task"
    /\ units' = [units EXCEPT ![u] =
                    [pc |-> "check", kind |-> "request", op |-> "update_user_profile",
                     cands |-> <<[key |-> key, value |-> value, category |-> category]>>,
                     goal_cands |-> <<>>, i |-> 1, loaded |-> {}, j |-> 1,
                     added |-> <<>>, committed |-> 0]]
    /\ UNCHANGED <<user_profile, goals, call, written, extraction, last_writer>>
    /\ UNCHANGED chat_vars

\* The goals that the units in progress may still insert.
goals_to_come == 
    LET n[u \in 0..MaxUnits] ==
            IF u = 0 THEN 0
            ELSE n[u - 1] + (IF in_progress(u) THEN Len(units[u].goal_cands) ELSE 0)
    IN n[MaxUnits]

\* A background task starts save_extracted_information(extraction_result).
start_save(u, extraction_result) ==
    LET cands == iterable(extraction_result.user_profile)
        goal_cands == iterable(extraction_result.goals)
    IN /\ call = idle
       /\ units[u].pc = "none"
       /\ next_id(goals) + goals_to_come + Len(goal_cands) - 1 <= MaxGoals
       /\ units' = [units EXCEPT ![u] =
                       [pc |-> IF cands # <<>> THEN "check"
                               ELSE IF goal_cands # <<>> THEN "goal_check"
                               ELSE "commit",
                        kind |-> "task", op |-> "save_extracted_information",
                        cands |-> cands, goal_cands |-> goal_cands, i |-> 1,
                        loaded |-> {}, j |-> 1, added |-> <<>>, committed |-> 0]]
       /\ UNCHANGED <<user_profile, goals, call, written, extraction, last_writer>>
       /\ UNCHANGED chat_vars

\* The existence check of update_user_profile for candidate i:
\* profile = self.get_user_profile(key).
upsert_check(u) ==
    /\ call = idle
    /\ units[u].pc = "check"
    /\ units' = [units EXCEPT ![u].pc = "write",
                              ![u].loaded =
                                  get_user_profile(user_profile, units[u].cands[units[u].i].key)]
    /\ UNCHANGED <<user_profile, goals, call, written, extraction, last_writer>>
    /\ UNCHANGED chat_vars

\* The flush and commit of update_user_profile on the table as it is now, after
\* the check found `loaded`.  Without a loaded row it is an INSERT, which the
\* table rejects when the key is there by now.  With one it is an UPDATE of the
\* columns whose new value differs from the loaded one, by primary key; no
\* statement when none differs, and StaleDataError when no row has the key by now.
upsert_flush(rows, loaded, p) ==
    LET now == get_user_profile(rows, p.key)
        profile == CHOOSE q \in loaded : TRUE
        row == CHOOSE q \in now : TRUE
        new == [key |-> p.key, value |-> p.value, category |-> p.category]
        value_set == p.value # profile.value
        category_set == truthy(p.category) /\ p.category # profile.category
        updated == [row EXCEPT !.value = IF value_set THEN p.value ELSE @,
                               !.category = IF category_set THEN p.category ELSE @]
    IN IF loaded = {}
       THEN commit(rows, rows \cup {new}, new \notin rows /\ UserProfile(rows \cup {new}),
                   FALSE)
       ELSE IF ~value_set /\ ~category_set
       THEN commit(rows, rows, TRUE, FALSE)
       ELSE IF now = {}
       THEN commit(rows, rows, FALSE, FALSE)
       ELSE commit(rows, (rows \ {row}) \cup {updated},
                   UserProfile((rows \ {row}) \cup {updated}), FALSE)

\* The write of update_user_profile for candidate i, and what follows it: the
\* next candidate, the goals loop, or the end of the call.  An exception ends
\* the call.
upsert_write(u) ==
    LET unit == units[u]
        p == unit.cands[unit.i]
        res == upsert_flush(user_profile, unit.loaded, p)
        next == IF unit.i < Len(unit.cands) THEN "check"
                ELSE IF unit.op = "update_user_profile" THEN "done"
                ELSE IF unit.goal_cands # <<>> THEN "goal_check"
                ELSE "commit"
    IN /\ call = idle
       /\ unit.pc = "write"
       /\ user_profile' = res.rows
       /\ units' = [units EXCEPT ![u].pc = IF res.raised THEN "raised" ELSE next,
                                 ![u].i = IF res.raised THEN @ ELSE @ + 1,
                                 ![u].committed = IF res.raised THEN @ ELSE @ + 1]
       /\ written' = IF res.raised THEN written ELSE [written EXCEPT ![p.key] = p.value]
       /\ last_writer' = 0
       /\ UNCHANGED <<goals, call, extraction>>
       /\ UNCHANGED chat_vars

\* The duplicate check of the goals loop for candidate j, and the add that
\* follows it when no active goal has the title.
goal_check(u) ==
    LET unit == units[u]
        g == unit.goal_cands[unit.j]
        added == IF existing_goal(goals, unit.added, g.title) = {}
                 THEN Append(unit.added, new_goal(g)) ELSE unit.added
    IN /\ call = idle
       /\ unit.pc = "goal_check"
       /\ units' = [units EXCEPT ![u].added = added,
                                 ![u].j = @ + 1,
                                 ![u].pc = IF unit.j < Len(unit.goal_cands)
                                           THEN "goal_check" ELSE "commit"]
       /\ UNCHANGED <<user_profile, goals, call, written, extraction, last_writer>>
       /\ UNCHANGED chat_vars

\* The last commit of save_extracted_information: the goals added are flushed.
goals_commit(u) ==
    LET unit == units[u]
        pending == flush_goals(goals, unit.added)
        res == commit(goals, pending, Goal(pending), FALSE)
    IN /\ call = idle
       /\ unit.pc = "commit"
       /\ goals' = res.rows
       /\ units' = [units EXCEPT ![u].pc = IF res.raised THEN "raised" ELSE "done",
                                 ![u].committed = IF res.raised THEN @ ELSE @ + 1]
       /\ last_writer' = 0
       /\ UNCHANGED <<user_profile, call, written, extraction>>
       /\ UNCHANGED chat_vars

\* The unit has returned or raised to its caller; its session is closed.
unit_end(u) ==
    /\ call = idle
    /\ units[u].pc \in {"done", "raised"}
    /\ units' = [units EXCEPT ![u] = [pc |-> "none"]]
    /\ UNCHANGED <<user_profile, goals, call, written, extraction, last_writer>>
    /\ UNCHANGED chat_vars

\* The caller takes the outcome of the call: the endpoint returns its response.
returned ==
    /\ call # idle
    /\ call' = idle
    /\ UNCHANGED <<user_profile, goals, written, extraction, last_writer>>
    /\ UNCHANGED chat_vars
    /\ UNCHANGED units

----------------------------------------------------------------------------
\* Inputs.

ProfileCands ==
    [key : Keys, value : Values, category : {None}]
    \cup {[key |-> "name", value |-> "Bob", category |-> "personal"],
          [key |-> "name", value |-> "Alice", category |-> ""],
          [key |-> None, value |-> "Alice", category |-> None],
          [key |-> "name", value |-> None, category |-> None]}

GoalCands ==
    {[title |-> "Learn X", description |-> None, deadline |-> None, priority |-> None],
     [title |-> "Learn X", description |-> "basics", deadline |-> None, priority |-> None],
     [title |-> "Learn Python", description |-> None, deadline |-> "December",
      priority |-> "high"],
     [title |-> None, description |-> "basics", deadline |-> None, priority |-> None]}

SeqsUpTo(S, n) == UNION {[1..m -> S] : m \in 0..n}

ProfileResults ==
    [type : {"dict"},
     user_profile : {list_of(s) : s \in SeqsUpTo(ProfileCands, MaxProfileCands)},
     goals : {list_of(<<>>)}]

GoalResults ==
    [type : {"dict"},
     user_profile : {list_of(s) : s \in SeqsUpTo(
                         {[key |-> "name", value |-> "Alice", category |-> None],
                          [key |-> "name", value |-> None, category |-> None]}, 1)},
     goals : {list_of(s) : s \in SeqsUpTo(GoalCands, MaxGoalCands)}]

NextProfiles ==
    \/ \E k \in Keys \cup {None}, v \in Values \cup {None}, c \in Categories \cup {None},
          e \in BOOLEAN : create_profile(k, v, c, e)
    \/ \E k \in Keys : delete_profile(k)
    \/ \E r \in ProfileResults : \E f \in 0..(Len(iterable(r.user_profile)) + 1) :
          consolidate(r, f)
    \/ returned

SpecProfiles == Init /\ [][NextProfiles]_vars

\* The profile candidates of the call that has just ended.
profile_cands == iterable(call.result.user_profile)
goal_cands == iterable(call.result.goals)
saved == call.op = "save_extracted_information"
stored(k) == {p.value : p \in get_user_profile(user_profile, k)}

\* C1: last-write-wins.  Under every key that has been upserted (directly or as a
\* candidate of a batch, in list order) and not deleted since, the store holds
\* exactly the value of the last upsert applied to that key.
LastWriteWins ==
    \A k \in Keys : written[k] # None => stored(k) = {written[k]}

\* C1 witness: a batch of two candidates with the same key and different values
\* was applied, and the value of the second one is stored.
LastWriteWinsWitness ==
    /\ saved /\ call.applied = 2
    /\ profile_cands[1].key = profile_cands[2].key
    /\ profile_cands[1].value # profile_cands[2].value
    /\ stored(profile_cands[2].key) = {profile_cands[2].value}

\* C5: consolidation is all-or-nothing.  A call of save_extracted_information
\* that fails leaves the Fact Store and the Goal Store as they were before it.
AllOrNothing ==
    [][(call'.op = "save_extracted_information" /\ call'.raised)
       => (user_profile' = user_profile /\ goals' = goals)]_vars

well_formed_profile(p) == p.key # None /\ p.value # None
well_formed_goal(g) == g.title # None

\* C6: a storage failure is not swallowed.  When a commit of the call meets a
\* storage error, or a write is rejected by the table (a NULL key, value or
\* title), save_extracted_information raises to its caller.
StorageFailureSurfaces ==
    (saved /\ (\/ call.fail_at \in 1..(Len(profile_cands) + 1)
               \/ \E i \in DOMAIN profile_cands : ~well_formed_profile(profile_cands[i])
               \/ \E i \in DOMAIN goal_cands : ~well_formed_goal(goal_cands[i])))
    => call.raised

\* C6 witness: every profile candidate was written and the last commit of the
\* call, the one of the goals, met a storage error; the call raised.
StorageFailureSurfacesWitness ==
    /\ saved /\ call.raised
    /\ Len(profile_cands) = 1 /\ call.applied = 1
    /\ call.fail_at = 2
    /\ Len(goal_cands) = 2

\* C9: malformed candidates are dropped silently.  A call of
\* save_extracted_information that meets no storage error raises nothing, and
\* afterwards every key of a well-formed profile candidate holds the value of the
\* last well-formed candidate for it and every title of a well-formed goal
\* candidate has an active goal.
MalformedDropped ==
    (saved /\ call.fail_at = 0)
    => /\ ~call.raised
       /\ \A k \in Keys :
             LET good == SelectSeq(profile_cands, well_formed_profile)
             IN last_value(good, k, None) # None
                => stored(k) = {last_value(good, k, None)}
       /\ \A i \in DOMAIN goal_cands :
             well_formed_goal(goal_cands[i])
             => \E g \in goals : g.title = goal_cands[i].title /\ g.status = "active"

\* C10: category handling on upsert.  After an upsert that succeeds the fact has
\* the supplied value; its category is the supplied one, or, when none is
\* supplied (None), the one the fact had before, and None for a new fact.
CategoryHandling ==
    [][(call'.op = "update_user_profile" /\ ~call'.raised)
       => LET before == get_user_profile(user_profile, call'.key)
              category == IF call'.category # None \/ before = {}
                          THEN call'.category
                          ELSE (CHOOSE p \in before : TRUE).category
          IN get_user_profile(user_profile', call'.key)
               = {[key |-> call'.key, value |-> call'.value, category |-> category]}]_vars

NextGoals ==
    \/ \E t \in Titles, s \in Statuses, e \in BOOLEAN :
          post_goal([title |-> t, description |-> None, deadline |-> "2024-12-31",
                     priority |-> None, status |-> s, progress |-> 0], e)
    \/ \E g \in goals, s \in Statuses, e \in BOOLEAN :
          put_goal(g.id, [f \in {"status"} |-> s], e)
    \/ \E g \in goals : remove_goal(g.id)
    \/ \E r \in GoalResults : \E f \in 0..(Len(iterable(r.user_profile)) + 1) :
          consolidate(r, f)
    \/ \E r \in GoalResults : consolidate_twice(r)
    \/ returned

SpecGoals == Init /\ [][NextGoals]_vars

titled(rows, title) == {g \in rows : g.title = title}
active(rows, title) == {g \in rows : g.title = title /\ g.status = "active"}

\* C2: goal dedup on consolidation.  For every goal candidate whose title is the
\* title of a goal that is active before the call, save_extracted_information
\* inserts no goal of that title and leaves the goals of that title as they are.
GoalDedup ==
    [][call'.op = "save_extracted_information"
       => \A i \in DOMAIN iterable(call'.result.goals) :
            LET title == iterable(call'.result.goals)[i].title
            IN active(goals, title) # {} => titled(goals', title) = titled(goals, title)]_vars

\* C2 witness: a call that did not raise had a candidate with a description for
\* the title of the one goal of that title, which is active and has none.
GoalDedupWitness ==
    /\ saved /\ ~call.raised
    /\ \E i \in DOMAIN goal_cands :
          /\ goal_cands[i].description = "basics"
          /\ Cardinality(titled(goals, goal_cands[i].title)) = 1
          /\ \E g \in active(goals, goal_cands[i].title) : g.description = None

twice == call.op = "save_extracted_information twice"

one_active_per_title(rows) ==
    \A g, h \in rows : (g.title = h.title /\ g.status = "active" /\ h.status = "active")
                        => g = h

\* C4: consolidation preserves at most one active goal per title.
OneActivePerTitlePreserved ==
    [][(call'.op = "save_extracted_information" /\ one_active_per_title(goals))
       => one_active_per_title(goals')]_vars

\* C11: a goal candidate whose title no active goal has is inserted.  In a call of
\* save_extracted_information that completes, every candidate title that no
\* active goal had before the call gets one new goal per candidate of that
\* title, each with status active and progress 0, whatever completed or archived
\* goals of that title exist.
NewGoalInserted ==
    [][(call'.op = "save_extracted_information" /\ ~call'.raised)
       => \A i \in DOMAIN iterable(call'.result.goals) :
            LET cands == iterable(call'.result.goals)
                title == cands[i].title
                new == titled(goals' \ goals, title)
            IN active(goals, title) = {}
               => /\ Cardinality(new)
                       = Cardinality({j \in DOMAIN cands : cands[j].title = title})
                  /\ \A g \in new : g.status = "active" /\ g.progress = 0]_vars

\* C11 witness: a call inserted an active goal with progress 0 under a title
\* that a completed or archived goal already had.
NewGoalInsertedWitness ==
    /\ saved /\ ~call.raised
    /\ \E i \in DOMAIN goal_cands :
          /\ \E g \in goals \ call.inserted :
                g.title = goal_cands[i].title /\ g.status \in {"completed", "archived"}
          /\ \E h \in call.inserted :
                h.title = goal_cands[i].title /\ h.status = "active" /\ h.progress = 0

\* C12: deadlines from extraction are dropped.  Every goal that a call of
\* save_extracted_information adds to the Goal Store has no deadline.
ExtractedDeadlineDropped ==
    [][call'.op = "save_extracted_information"
       => \A g \in goals' \ goals : g.deadline = None]_vars

\* C12 witness: a candidate carried the deadline "December" and the goal the call
\* inserted for it has none.
ExtractedDeadlineDroppedWitness ==
    /\ saved
    /\ \E i \in DOMAIN goal_cands :
          /\ goal_cands[i].deadline = "December"
          /\ \E g \in call.inserted :
                g.title = goal_cands[i].title /\ g.deadline = None

\* The goals created directly in the runs that build contexts.
ContextGoals ==
    {[title |-> "Learn X", description |-> "basics", deadline |-> None,
      priority |-> None, status |-> "active", progress |-> 0],
     [title |-> "Learn X", description |-> None, deadline |-> "2024-12-31",
      priority |-> "high", status |-> "active", progress |-> 30],
     [title |-> "Learn Python", description |-> "", deadline |-> None,
      priority |-> None, status |-> "completed", progress |-> 100],
     [title |-> "Learn Python", description |-> "syntax", deadline |-> None,
      priority |-> None, status |-> "archived", progress |-> 0]}

Messages == {"My name is Alice and I want to learn Python by December", "Hi"}
Replies == {"Nice to meet you"}

NextContext ==
    \/ \E k \in Keys, v \in Values : create_profile(k, v, None, FALSE)
    \/ \E k \in Keys : delete_profile(k)
    \/ \E g \in ContextGoals : post_goal(g, FALSE)
    \/ \E g \in goals, st \in Statuses : put_goal(g.id, [f \in {"status"} |-> st], FALSE)
    \/ \E g \in goals : remove_goal(g.id)
    \/ \E r \in Replies : record_conversation("Hi", r, FALSE)
    \/ build_context
    \/ build_context_twice
    \/ returned

SpecContext == Init /\ [][NextContext]_vars

\* The lines of a string: its pieces between line feeds; none for "".
RECURSIVE split(_)
split(text) ==
    LET feeds == {i \in 1..Len(text) : SubSeq(text, i, i) = "\n"}
        first == CHOOSE i \in feeds : \A j \in feeds : i <= j
    IN IF feeds = {} THEN <<text>>
       ELSE <<SubSeq(text, 1, first - 1)>> \o split(SubSeq(text, first + 1, Len(text)))

lines(text) == IF text = "" THEN <<>> ELSE split(text)

built == call.op = "construct_system_context"

\* C13: construct_system_context returns the empty string exactly when the Fact
\* Store is empty and no goal has status active.
ContextEmptyIff ==
    built => (call.returned = ""
              <=> (user_profile = {} /\ \A g \in goals : g.status # "active"))

\* C13 witness: the store holds no fact and only goals that are completed or
\* archived, one of each, and the context is the empty string.
ContextEmptyIffWitness ==
    /\ built /\ call.returned = ""
    /\ user_profile = {}
    /\ \E g, h \in goals : g.status = "completed" /\ h.status = "archived"

has_prefix(text, prefix) ==
    Len(text) >= Len(prefix) /\ SubSeq(text, 1, Len(prefix)) = prefix

\* The lines of a context under the fact header, up to the blank line or the end,
\* and the lines under the goals header.
fact_section(ls) ==
    LET blanks == {i \in DOMAIN ls : ls[i] = ""}
        end == IF blanks = {} THEN Len(ls)
               ELSE (CHOOSE i \in blanks : \A j \in blanks : i <= j) - 1
    IN IF ls # <<>> /\ ls[1] = "## User Profile Information:"
       THEN SubSeq(ls, 2, end) ELSE <<>>

goal_section(ls) ==
    LET headers == {i \in DOMAIN ls : ls[i] = "## Current Goals:"}
    IN IF headers = {} THEN <<>>
       ELSE SubSeq(ls, (CHOOSE i \in headers : TRUE) + 1, Len(ls))

\* C14: context completeness.  The lines under the fact header are the lines
\* `- {key}: {value}` of the stored facts, one per fact, in the order in which
\* the store retrieves them; the lines under the goals header are as many as
\* there are active goals, and under each title as many as there are active
\* goals of that title, so that a completed or archived goal has no line.
ContextComplete ==
    built =>
      LET ls == lines(call.returned)
          facts == get_all_user_profiles(user_profile)
          gs == goal_section(ls)
      IN /\ Len(facts) = Cardinality(user_profile)
         /\ fact_section(ls)
              = [i \in 1..Len(facts) |-> "- " \o facts[i].key \o ": " \o facts[i].value]
         /\ Len(gs) = Cardinality({g \in goals : g.status = "active"})
         /\ \A t \in Titles :
              Cardinality({i \in DOMAIN gs : has_prefix(gs[i], "- " \o t \o " ")})
                = Cardinality(active(goals, t))

\* C14 witness: two facts, one active goal and one archived goal are stored, and
\* the context has two fact lines and one goal line.
ContextCompleteWitness ==
    /\ built
    /\ Cardinality(user_profile) = 2
    /\ \E g, h \in goals : g.status = "active" /\ h.status = "archived"
    /\ Len(fact_section(lines(call.returned))) = 2
    /\ Len(goal_section(lines(call.returned))) = 1

\* C15: goal line format.  Every active goal is rendered as
\* `- {title} ({deadline if present}): {description or empty string}`, with empty
\* parentheses when the goal has no deadline.
GoalLineFormat ==
    built =>
      LET gs == goal_section(lines(call.returned))
          actives == get_active_goals(goals)
      IN \A i \in DOMAIN actives :
           /\ i \in DOMAIN gs
           /\ gs[i] = "- " \o actives[i].title
                      \o " (" \o (IF actives[i].deadline # None
                                  THEN actives[i].deadline ELSE "") \o "): "
                      \o (IF truthy(actives[i].description)
                          THEN actives[i].description ELSE "")

Members(cands) == {list_of(s) : s \in SeqsUpTo(cands, 1)} \cup {missing, a_str}

Docs ==
    [type : {"dict"},
     user_profile : Members({[key |-> "name", value |-> "Alice", category |-> None],
                             [key |-> "name", value |-> "Bob", category |-> "personal"],
                             [key |-> "hobby", value |-> None, category |-> None]}),
     goals : Members({[title |-> "Learn Python", description |-> None,
                       deadline |-> "December", priority |-> None],
                      [title |-> None, description |-> "basics",
                       deadline |-> None, priority |-> None]})]
    \cup {[type |-> "list"], [type |-> "str"], [type |-> "NoneType"]}

Responses ==
    {[raised |-> TRUE]}
    \cup {[raised |-> FALSE, content |-> [valid |-> FALSE]]}
    \cup {[raised |-> FALSE, content |-> [valid |-> TRUE, doc |-> d]] : d \in Docs}

NextExtraction ==
    \/ \E r \in Responses, f \in 0..2 : process_information_extraction(r, f)
    \/ returned

SpecExtraction == Init /\ [][NextExtraction]_vars

\* {facts: [...], goals: [...]}: an object whose two members are lists.
matches_schema(doc) ==
    doc.type = "dict" /\ doc.user_profile.type = "list" /\ doc.goals.type = "list"

\* C7: extraction is fail-open.  When the model call raises or the text it
\* returns is no JSON, extract_information returns the empty result and does
\* not raise.
FailOpen ==
    (extraction.ran /\ (extraction.response.raised
                         \/ ~extraction.response.content.valid))
    => (~extraction.raised /\ extraction.returned = empty_result)

\* C7 witness: the model answered text that is no JSON and extract_information
\* returned the empty result.
FailOpenWitness ==
    /\ extraction.ran /\ ~extraction.response.raised
    /\ ~extraction.response.content.valid
    /\ ~extraction.raised /\ extraction.returned = empty_result

\* C8: a schema mismatch is downgraded to the empty result.  When the model
\* returns a JSON document that does not match the extraction schema,
\* extract_information returns the empty result.
SchemaMismatchEmpty ==
    (extraction.ran /\ ~extraction.response.raised
     /\ extraction.response.content.valid
     /\ ~matches_schema(extraction.response.content.doc))
    => (~extraction.raised /\ extraction.returned = empty_result)

----------------------------------------------------------------------------
\* Chat turns with their background tasks, next to a direct delete of a fact.

\* What the model answers to the extraction prompt of a background task.
ChatResponses ==
    {[raised |-> TRUE],
     [raised |-> FALSE, content |-> [valid |-> TRUE, doc |-> [type |-> "list"]]]}
    \cup {[raised |-> FALSE, content |-> [valid |-> TRUE, doc |-> d]] :
            d \in {[type |-> "dict",
                    user_profile |-> list_of(<<[key |-> "name", value |-> "Alice",
                                                category |-> None]>>),
                    goals |-> list_of(<<[title |-> "Learn Python", description |-> None,
                                         deadline |-> "December", priority |-> None]>>)],
                   [type |-> "dict",
                    user_profile |-> list_of(<<[key |-> "name", value |-> "Bob",
                                                category |-> None],
                                               [key |-> "hobby", value |-> None,
                                                category |-> None]>>),
                    goals |-> list_of(<<>>)]}}

\* The steps of the background task of turn n once it has started.
task_step(n) ==
    \/ \E r \in ChatResponses : task_extract(n, r)
    \/ \E f \in 0..1 : task_save(n, f)
    \/ task_close(n)

NextChat ==
    \/ \E m \in Messages : chat_start(m)
    \/ chat_context
    \/ \E r \in Replies : chat_model(FALSE, r) \/ chat_model(TRUE, None)
    \/ \E e \in BOOLEAN : chat_save(e)
    \/ chat_schedule
    \/ chat_return
    \/ \E n \in 1..MaxTurns : task_open(n) \/ task_step(n)
    \/ delete_profile("name")
    \/ returned

SpecChat == Init /\ [][NextChat]_vars

\* The worker thread runs a task that has started to its end; the model call of
\* the extraction returns or raises.
SpecChatFair == SpecChat /\ \A n \in 1..MaxTurns : WF_vars(task_step(n))

started(n) == tasks[n].pc \in {"running", "extracted", "finished", "done"}

\* C17: session scoping of the background task.  From its start to its finally
\* clause a task works through the session it opened itself, which is open; a
\* task that has ended has closed it; and every task that has started ends,
\* with its session closed, once the model call has returned or raised.
SessionScoped ==
    /\ [](\A n \in 1..MaxTurns :
            started(n) => /\ tasks[n].memory_service = "new_db"
                          /\ tasks[n].new_db = (IF tasks[n].pc = "done"
                                                THEN "closed" ELSE "open"))
    /\ \A n \in 1..MaxTurns :
         (tasks[n].pc = "running") ~> (tasks[n].pc = "done" /\ tasks[n].new_db = "closed")

\* C17 witness: a task whose consolidation failed has ended with its session
\* closed.
SessionScopedWitness ==
    \E n \in 1..MaxTurns :
        /\ tasks[n].pc = "done" /\ tasks[n].failed /\ tasks[n].saves = 1
        /\ tasks[n].new_db = "closed"

\* C18: background failures are contained.  A failure in a task is caught: the
\* step that fails takes the task to its finally clause.  A task calls the
\* extraction once and the consolidation at most once, and none after a
\* failure.  No step of a task changes the request being handled or a
\* response, and a response that was sent stays as it is.
BackgroundFailureContained ==
    [][\A n \in 1..MaxTurns :
         /\ started(n) /\ tasks'[n] # tasks[n]
            => /\ turn' = turn /\ responses' = responses
               /\ tasks[n].failed => (tasks'[n].pc = "done"
                                      /\ tasks'[n].extractions = tasks[n].extractions
                                      /\ tasks'[n].saves = tasks[n].saves)
               /\ tasks'[n].failed => tasks'[n].pc \in {"finished", "done"}
               /\ tasks'[n].extractions <= 1 /\ tasks'[n].saves <= 1
         /\ responses[n].status # 0 => responses'[n] = responses[n]]_vars

\* C18 witness: the task of the first turn failed in its consolidation and has
\* ended; the first turn has its reply and the second turn got one after that.
BackgroundFailureContainedWitness ==
    /\ tasks[1].pc = "done" /\ tasks[1].failed /\ tasks[1].saves = 1
    /\ responses[1] = [status |-> 200, response |-> "Nice to meet you"]
    /\ responses[2] = [status |-> 200, response |-> "Nice to meet you"]

\* C19: extraction output is used in future turns only.  The background task of
\* a turn exists only once the turn has built its context, got its reply and
\* recorded the conversation; so while a turn builds its context and calls the
\* model its own task has written nothing, and the context it built was not
\* read after a write of its own task.
ExtractionAfterReply ==
    /\ \A n \in 1..MaxTurns :
         tasks[n].pc # "none"
         => (turn.n > n \/ (turn.n = n /\ turn.pc \in {"scheduled", "none"}))
    /\ turn.pc \in {"start", "context"}
       => (tasks[turn.n].pc = "none" /\ last_writer # turn.n)
    /\ turn.pc \in {"context", "replied", "saved", "scheduled"}
       => turn.last_writer # turn.n

\* C19 witness: the task of the first turn has written a fact and ended, and the
\* second turn has built a context that is not empty.
ExtractionAfterReplyWitness ==
    /\ tasks[1].pc = "done" /\ tasks[1].wrote.facts # {}
    /\ turn.n = 2 /\ turn.pc = "context" /\ turn.memory_context # ""

has_lines(text, w) ==
    /\ \A f \in w.facts :
         \E i \in DOMAIN lines(text) : lines(text)[i] = "- " \o f.key \o ": " \o f.value
    /\ \A g \in w.goals :
         \E i \in DOMAIN lines(text) : has_prefix(lines(text)[i], "- " \o g.title \o " ")

context_built == turn.pc \in {"context", "replied", "saved", "scheduled"}

\* C20, as claimed: when the task of the turn before had ended before the
\* context build began, the context has a line for every fact and every goal
\* that the consolidation of that task wrote.
FreshAfterTask ==
    (context_built /\ turn.task_done)
    => has_lines(turn.memory_context, tasks[turn.n - 1].wrote)

\* C20, amended: the same, when no other unit of work wrote to the stores
\* between that consolidation and the context build.
FreshAfterLastWrite ==
    (context_built /\ turn.task_done /\ turn.last_writer = turn.n - 1)
    => has_lines(turn.memory_context, tasks[turn.n - 1].wrote)

\* C20 witness: the task of the first turn wrote name = Alice and the goal
\* "Learn Python" and ended; the context of the second turn has both lines.
FreshAfterLastWriteWitness ==
    /\ context_built /\ turn.n = 2 /\ turn.task_done /\ turn.last_writer = 1
    /\ tasks[1].wrote.facts = {[key |-> "name", value |-> "Alice"]}
    /\ \E g \in tasks[1].wrote.goals : g.title = "Learn Python"
    /\ \E i \in DOMAIN lines(turn.memory_context) :
          lines(turn.memory_context)[i] = "- name: Alice"
    /\ \E i \in DOMAIN lines(turn.memory_context) :
          has_prefix(lines(turn.memory_context)[i], "- Learn Python ")

----------------------------------------------------------------------------
\* Upserts and consolidations that run concurrently, next to readers and deletes.

RaceResults ==
    {[type |-> "dict",
      user_profile |-> list_of(<<[key |-> "name", value |-> "Alice", category |-> None]>>),
      goals |-> list_of(<<[title |-> "Learn Python", description |-> None,
                           deadline |-> "December", priority |-> None]>>)],
     [type |-> "dict",
      user_profile |-> list_of(<<[key |-> "name", value |-> "Bob", category |-> None],
                                 [key |-> "hobby", value |-> "Alice", category |-> None]>>),
      goals |-> list_of(<<>>)],
     [type |-> "dict",
      user_profile |-> list_of(<<>>),
      goals |-> list_of(<<[title |-> "Learn Python", description |-> None,
                           deadline |-> "December", priority |-> None]>>)]}

NextConcurrent ==
    \/ \E u \in 1..MaxUnits, v \in Values : start_upsert(u, "name", v, None)
    \/ \E u \in 1..MaxUnits, r \in RaceResults : start_save(u, r)
    \/ \E u \in 1..MaxUnits : upsert_check(u)
    \/ \E u \in 1..MaxUnits : upsert_write(u)
    \/ \E u \in 1..MaxUnits : goal_check(u)
    \/ \E u \in 1..MaxUnits : goals_commit(u)
    \/ \E u \in 1..MaxUnits : unit_end(u)
    \/ \E k \in Keys : delete_profile(k)
    \/ \E keys \in SeqsUpTo(Keys, 2) : batch_delete_profiles(keys)
    \/ build_context
    \/ returned

SpecConcurrent == Init /\ [][NextConcurrent]_vars

\* C21: upsert is atomic per key under concurrency.  The write of an upsert
\* whose existence check found the key absent completes without error, whatever
\* other units did between the check and the write, and leaves one fact for the
\* key, holding the value of this upsert or of the other one.
UpsertAtomicPerKey ==
    [][\A u \in 1..MaxUnits :
         (units[u].pc = "write" /\ units[u].loaded = {} /\ units'[u].pc # "write")
         => /\ units'[u].pc # "raised"
            /\ Cardinality(get_user_profile(user_profile',
                                            units[u].cands[units[u].i].key)) = 1]_vars

\* C22: one consolidation call is one transaction as seen by readers.  A
\* context read while a save_extracted_information call is in progress never
\* has the line of a candidate that the call has applied without the line of a
\* later candidate of the call, with another key, that it has not applied yet.
ReadersSeeWholeCalls ==
    [][call'.op = "construct_system_context"
       => \A u \in 1..MaxUnits :
            (in_progress(u) /\ units[u].op = "save_extracted_information")
            => ~ \E a, b \in DOMAIN units[u].cands :
                   LET line(p) == "- " \o p.key \o ": " \o p.value
                       ls == lines(call'.returned)
                   IN /\ a < units[u].i /\ units[u].i <= b
                      /\ units[u].cands[a].key # units[u].cands[b].key
                      /\ \E n \in DOMAIN ls : ls[n] = line(units[u].cands[a])
                      /\ \A n \in DOMAIN ls : ls[n] # line(units[u].cands[b])]_vars

\* C23: one row per key.  In every reachable state the Fact Store holds at most
\* one fact per key.
OneRowPerKey ==
    \A p, q \in user_profile : p.key = q.key => p = q

\* C23 witness: two units found the key absent and both inserted it; the insert
\* of the second one was rejected, and the store holds one fact under the key.
OneRowPerKeyWitness ==
    \E u, v \in 1..MaxUnits :
        /\ units[u].pc = "raised" /\ units[u].loaded = {}
        /\ units[v].pc = "done" /\ units[v].loaded = {}
        /\ units[u].cands[units[u].i].key = "name" /\ units[v].cands[1].key = "name"
        /\ Cardinality(get_user_profile(user_profile, "name")) = 1
\* The number of chat turns that have returned their reply.
turns_done == Cardinality({n \in 1..MaxTurns : responses[n].status = 200})

\* The last turn of the log holds the message and the reply of the turn in progress.
recorded ==
    \E c \in conversations :
       /\ c.id = Max({d.id : d \in conversations})
       /\ c.user_message = turn.message
       /\ c.assistant_message = turn.reply

\* The model call of turn n has failed.
model_failed(n) == responses[n] = error_response("model unreachable")

\* C24: chat turn step order.  A turn goes through its steps in the order
\* context, model, record, schedule, return; the context is the one built from
\* the stores and the model is called with it; until the model has replied the
\* turn has recorded nothing and scheduled nothing; once recorded, the log holds
\* one more turn, with the user message and the reply, and nothing is scheduled
\* yet; once scheduled, the task holds the user message; and between turns the
\* log holds one turn per successful chat turn.
ChatStepOrder ==
       /\ [](/\ turn.pc \in {"none", "start", "context", "replied"}
                  => Cardinality(conversations) = turns_done
             /\ turn.pc \in {"start", "context", "replied", "saved"}
                  => tasks[turn.n].pc = "none"
             /\ turn.pc = "replied"
                  => turn.system_prompt = system_prompt(turn.memory_context)
             /\ turn.pc \in {"saved", "scheduled"}
                  => Cardinality(conversations) = turns_done + 1 /\ recorded
             /\ turn.pc = "scheduled"
                  => /\ tasks[turn.n].pc = "scheduled"
                     /\ tasks[turn.n].user_message = turn.message
             /\ \A n \in 1..MaxTurns :
                  responses[n].status = 200 => tasks[n].pc # "none")
       /\ [][/\ turn'.pc # turn.pc
                  => <<turn.pc, turn'.pc>> \in
                        {<<"none", "start">>, <<"start", "context">>,
                         <<"context", "replied">>, <<"context", "none">>,
                         <<"replied", "saved">>, <<"replied", "none">>,
                         <<"saved", "scheduled">>, <<"scheduled", "none">>}
             /\ turn'.pc = "context" /\ turn.pc = "start"
                  => turn'.memory_context = construct_system_context(user_profile, goals)
             /\ \A n \in 1..MaxTurns :
                  (responses[n].status # 200 /\ responses'[n].status = 200)
                  => /\ turn.pc = "scheduled" /\ turn.n = n
                     /\ responses'[n].response = turn.reply]_vars

\* C24 witness: two successful chat turns, and two turns in the log.
ChatStepOrderWitness ==
    /\ turn.pc = "none"
    /\ responses[1].status = 200 /\ responses[2].status = 200
    /\ Cardinality(conversations) = 2

\* C25: model failure in the main chat path.  The step at which the chat model
\* call fails ends the turn with a 500 response, and leaves the Conversation
\* Log, the scheduled tasks, the Fact Store and the Goal Store as they were;
\* the steps of the turn before it wrote nothing; and the turn has no task.
ModelFailureHard ==
    /\ [][\A n \in 1..MaxTurns :
            (~model_failed(n) /\ model_failed(n)')
            => /\ turn.pc = "context" /\ turn.n = n
               /\ turn'.pc = "none"
               /\ UNCHANGED <<conversations, tasks, user_profile, goals>>]_vars
    /\ [][(turn' # turn /\ turn'.pc \in {"start", "context"})
            => UNCHANGED <<conversations, tasks, user_profile, goals>>]_vars
    /\ [](\A n \in 1..MaxTurns :
            model_failed(n) => /\ tasks[n].pc = "none"
                         /\ Cardinality(conversations)
                              = Cardinality({m \in 1..MaxTurns \ {n} :
                                               responses[m].status = 200})
                                + (IF turn.pc \in {"saved", "scheduled"} THEN 1 ELSE 0))

\* C25 witness: the model call of the second turn has failed, after a first
\* turn that was recorded and whose task has written to the stores.
ModelFailureHardWitness ==
    /\ responses[2] = error_response("model unreachable")
    /\ responses[1].status = 200
    /\ Cardinality(conversations) = 1
    /\ user_profile # {}
    /\ tasks[2].pc = "none"


\* The ids a request can name: those of the rows a table can hold, and one more.
GoalIds == 1..(MaxGoals + 1)
ConversationIds == 1..(MaxTurns + 1)

NextDeletes ==
    \/ \E k \in Keys, v \in Values : create_profile(k, v, None, FALSE)
    \/ \E t \in Titles :
          post_goal([title |-> t, description |-> None, deadline |-> None,
                     priority |-> None, status |-> "active", progress |-> 0], FALSE)
    \/ \E r \in Replies : record_conversation("Hi", r, FALSE)
    \/ \E k \in Keys : delete_profile(k)
    \/ \E id \in GoalIds : remove_goal(id)
    \/ \E id \in ConversationIds : remove_conversation(id)
    \/ \E keys \in SeqsUpTo(Keys, 2) : batch_delete_profiles(keys)
    \/ \E ids \in SeqsUpTo(GoalIds, 2) : batch_delete_goals(ids)
    \/ \E ids \in SeqsUpTo(ConversationIds, 2) : batch_delete_conversations(ids)
    \/ \E g \in goals : put_goal(g.id, [f \in {"status"} |-> "completed"], FALSE)
    \/ \E r \in ChatResponses, f \in 0..1 : process_information_extraction(r, f)
    \/ build_context
    \/ returned

SpecDeletes == Init /\ [][NextDeletes]_vars

stores == <<user_profile, goals, conversations>>

\* C26: deleting an absent identity is not an error.  A delete of a key or an id
\* that is not stored returns False without raising and leaves the three stores
\* as they were; after any delete the identity is not stored, so that deleting
\* it once more changes nothing.
DeleteAbsent ==
    [][/\ call'.op = "delete_user_profile"
            => /\ ~call'.raised
               /\ get_user_profile(user_profile, call'.key) = {}
                    => (~call'.deleted /\ UNCHANGED stores)
               /\ delete_user_profile(user_profile', call'.key)
                    = [rows |-> user_profile', deleted |-> FALSE]
       /\ call'.op = "delete_goal"
            => /\ ~call'.raised
               /\ (\A g \in goals : g.id # call'.goal_id)
                    => (~call'.deleted /\ UNCHANGED stores)
               /\ delete_goal(goals', call'.goal_id)
                    = [rows |-> goals', deleted |-> FALSE]
       /\ call'.op = "delete_conversation"
            => /\ ~call'.raised
               /\ (\A c \in conversations : c.id # call'.conversation_id)
                    => (~call'.deleted /\ UNCHANGED stores)
               /\ delete_conversation(conversations', call'.conversation_id)
                    = [rows |-> conversations', deleted |-> FALSE]]_vars

\* C26 witness: a delete of a goal id that is not stored has returned False,
\* with rows in each of the three stores.
DeleteAbsentWitness ==
    /\ call.op = "delete_goal" /\ ~call.deleted
    /\ user_profile # {} /\ goals # {} /\ conversations # {}

\* C27: a batch delete of an empty list returns 0 and leaves every record of
\* every store as it was.
BatchDeleteEmpty ==
    [][/\ (call'.op = "delete_profiles_batch" /\ call'.keys = <<>>)
            => (call'.deleted_count = 0 /\ ~call'.raised /\ UNCHANGED stores)
       /\ (call'.op \in {"delete_goals_batch", "delete_conversations_batch"}
           /\ call'.ids = <<>>)
            => (call'.deleted_count = 0 /\ ~call'.raised /\ UNCHANGED stores)]_vars

\* C27 witness: a batch delete of goals with an empty list has returned, with
\* rows in each of the three stores.
BatchDeleteEmptyWitness ==
    /\ call.op = "delete_goals_batch" /\ call.ids = <<>>
    /\ user_profile # {} /\ goals # {} /\ conversations # {}

\* C28: a batch delete returns the count actually removed.  It returns the
\* number of distinct listed identities that were stored, removes the records
\* with those identities, and leaves every other record of every store as it was.
BatchDeleteCount ==
    [][/\ call'.op = "delete_profiles_batch"
            => /\ call'.deleted_count
                    = Cardinality({k \in elements(call'.keys) :
                                     \E p \in user_profile : p.key = k})
               /\ user_profile' = {p \in user_profile : p.key \notin elements(call'.keys)}
               /\ UNCHANGED <<goals, conversations>>
       /\ call'.op = "delete_goals_batch"
            => /\ call'.deleted_count
                    = Cardinality({id \in elements(call'.ids) :
                                     \E g \in goals : g.id = id})
               /\ goals' = {g \in goals : g.id \notin elements(call'.ids)}
               /\ UNCHANGED <<user_profile, conversations>>
       /\ call'.op = "delete_conversations_batch"
            => /\ call'.deleted_count
                    = Cardinality({id \in elements(call'.ids) :
                                     \E c \in conversations : c.id = id})
               /\ conversations' = {c \in conversations : c.id \notin elements(call'.ids)}
               /\ UNCHANGED <<user_profile, goals>>]_vars

\* C28 witness: a batch delete of facts whose list names the same stored key
\* twice has returned 1, and a fact that was not listed is still stored.
BatchDeleteCountWitness ==
    /\ call.op = "delete_profiles_batch"
    /\ call.keys = <<"name", "name">>
    /\ call.deleted_count = 1
    /\ user_profile # {}


\* Requests to POST /api/goals: GoalCreate takes any integer as progress.
PostedGoals ==
    {[title |-> "Learn X", description |-> "basics", deadline |-> "2024-12-31",
      priority |-> "high", status |-> "active", progress |-> p] : p \in {0, 150}}

\* Requests to PUT /api/goals/{goal_id}: the fields of GoalUpdate that were set,
\* each with its value, which can be null.
GoalUpdates ==
    {[f \in {} |-> None],
     [f \in {"description"} |-> None],
     [f \in {"title"} |-> None],
     [f \in {"status"} |-> None],
     [status |-> "paused", progress |-> -1],
     [f \in {"title"} |-> "Learn Python"],
     [f \in {"deadline", "priority"} |-> None],
     [status |-> "completed", progress |-> 100]}

NextGoalUpdates ==
    \/ \E g \in PostedGoals, e \in BOOLEAN : post_goal(g, e)
    \/ \E id \in GoalIds, d \in GoalUpdates, e \in BOOLEAN : put_goal(id, d, e)
    \/ \E id \in GoalIds : remove_goal(id)
    \/ consolidate([type |-> "dict", user_profile |-> list_of(<<>>),
                    goals |-> list_of(<<[title |-> "Learn Python", description |-> None,
                                         deadline |-> "December", priority |-> None]>>)], 0)
    \/ returned

SpecGoalUpdates == Init /\ [][NextGoalUpdates]_vars

\* The goal as an update leaves it: the fields that were set take their values.
updated_goal(goal, update_data) ==
    [f \in DOMAIN goal |-> IF f \in DOMAIN update_data THEN update_data[f] ELSE goal[f]]

\* The update supplies null for a field that is not nullable.
null_for_required(update_data) ==
    \/ \E f \in DOMAIN update_data \cap {"title", "status"} : update_data[f] = None
    \/ \E f \in DOMAIN update_data \cap {"progress"} : update_data[f] \notin Int

\* C29 as claimed: an update of an existing goal, without a storage failure,
\* sets every supplied field, null included, and leaves the rest, and the other
\* goals, as they were; an update of an absent id changes nothing.
PartialUpdate ==
    [][call'.op = "update_goal"
       => LET found == {g \in goals : g.id = call'.goal_id}
          IN IF found = {}
             THEN ~call'.found /\ goals' = goals
             ELSE ~call'.storage_error
                  => \A g \in found :
                        goals' = (goals \ {g}) \cup {updated_goal(g, call'.update_data)}]_vars

\* C29: goal partial update.  An update of an absent id returns the absent
\* result and changes nothing.  An update of an existing goal is rejected, and
\* changes nothing, exactly when it supplies null for title, status or progress
\* or the storage fails; otherwise the goal has the supplied values in the
\* supplied fields (null in a nullable field that was supplied as null), its
\* other fields are as before, and so is every other goal.
PartialUpdateNullable ==
    [][call'.op = "update_goal"
       => LET found == {g \in goals : g.id = call'.goal_id}
          IN IF found = {}
             THEN ~call'.found /\ ~call'.raised /\ goals' = goals
             ELSE /\ call'.found
                  /\ call'.raised <=> (null_for_required(call'.update_data)
                                       \/ call'.storage_error)
                  /\ call'.raised => goals' = goals
                  /\ ~call'.raised
                       => \A g \in found :
                            goals' = (goals \ {g})
                                       \cup {updated_goal(g, call'.update_data)}]_vars

\* C29 witness: an update that set description to null has returned; the goal
\* has no description and still has its title, deadline and priority, and the
\* other goal is stored as it was posted.
PartialUpdateNullableWitness ==
    /\ call.op = "update_goal" /\ call.found /\ ~call.raised
    /\ call.update_data = [f \in {"description"} |-> None]
    /\ \E g \in goals : /\ g.id = call.goal_id
                        /\ g.description = None
                        /\ g.title = "Learn X" /\ g.deadline = "2024-12-31"
                        /\ g.priority = "high"
    /\ \E h \in goals : h.id # call.goal_id /\ h.description = "basics"

\* C30: progress range.  In every reachable state every stored goal has a
\* progress between 0 and 100.
ProgressInRange ==
    \A g \in goals : 0 <= g.progress /\ g.progress <= 100


\* C31: status domain.  In every reachable state every stored goal has one of
\* the statuses active, completed and archived.
StatusDomain ==
    \A g \in goals : g.status \in Statuses


NoAutoDelete ==
    [][\A p \in user_profile :
         get_user_profile(user_profile', p.key) = {}
         => \/ call'.op = "delete_user_profile" /\ call'.key = p.key
            \/ call'.op = "delete_profiles_batch" /\ p.key \in elements(call'.keys)]_vars

\* C33 witness: a background task has consolidated a new value for a stored
\* key, next to another stored fact, goals and recorded turns; both facts are
\* still stored.
NoAutoDeleteWitness ==
    /\ call.op = "process_information_extraction" /\ call.saved /\ ~call.failed
    /\ \E p, q \in user_profile : p.key = "name" /\ p.value = "Alice" /\ q.key = "hobby"
    /\ goals # {} /\ conversations # {}


\* C34: goal dedup under concurrency.  When a consolidation that ran next to
\* others has committed, every title among its goal candidates has exactly one
\* active goal in the Goal Store.
ConcurrentGoalDedup ==
    \A u \in 1..MaxUnits :
       (units[u].pc = "done" /\ units[u].op = "save_extracted_information")
       => \A j \in DOMAIN units[u].goal_cands :
             Cardinality(active(goals, units[u].goal_cands[j].title)) = 1


\* The positions of a line in a sequence of lines.
positions(ls, line) == {i \in DOMAIN ls : ls[i] = line}

\* C35: section headers of the context.  The fact header is a line of the
\* context exactly when a fact is stored, and then it is the first line; the
\* goals header is a line exactly when an active goal exists, and then the line
\* before it is the one blank line of the context; so with facts and no active
\* goal there is no goals section, and with no fact and an active goal there is
\* no fact header and the context begins with the blank line.
SectionHeaders ==
    built =>
      LET ls == lines(call.returned)
          fact_headers == positions(ls, "## User Profile Information:")
          goal_headers == positions(ls, "## Current Goals:")
          blanks == positions(ls, "")
          any_active == \E g \in goals : g.status = "active"
      IN /\ fact_headers = (IF user_profile # {} THEN {1} ELSE {})
         /\ (goal_headers # {}) <=> any_active
         /\ Cardinality(goal_headers) <= 1
         /\ blanks = {h - 1 : h \in goal_headers}
         /\ (user_profile # {} /\ ~any_active)
              => Len(ls) = 1 + Cardinality(user_profile)
         /\ (user_profile = {} /\ any_active)
              => has_prefix(call.returned, "\n## Current Goals:\n- ")

\* C35 witness: a context built with no fact and an active goal, which begins
\* with the blank line, then the goals header.
SectionHeadersWitness ==
    /\ built
    /\ user_profile = {}
    /\ \E g \in goals : g.status = "active"
    /\ lines(call.returned)[1] = ""
    /\ lines(call.returned)[2] = "## Current Goals:"


\* The extraction result has a fact or a goal: it is a dict with a candidate in
\* the list of one of its two members.
has_candidates(result) ==
    /\ result.type = "dict"
    /\ \/ iterable(result.user_profile) # <<>>
       \/ iterable(result.goals) # <<>>

\* C36: empty extraction causes no store access.  A background task whose
\* extraction result has no fact and no goal does not call
\* save_extracted_information and leaves the three stores as they were; a task
\* whose result has a fact or a goal calls it.
EmptyExtractionNoSave ==
    [][call'.op = "process_information_extraction"
       => IF has_candidates(extraction'.returned)
          THEN call'.saved
          ELSE ~call'.saved /\ UNCHANGED stores]_vars


\* C37: direct goal creation does not deduplicate.  A create_goal call that
\* returns has added one goal, with the fields of the request and an id that no
\* stored goal had, whatever the titles of the stored goals, and has left the
\* stored goals as they were; a call that fails adds nothing; and in every
\* reachable state no two goals have the same id.
CreateGoalAddsOne ==
    /\ [](\A g, h \in goals : g.id = h.id => g = h)
    /\ [][call'.op = "create_goal"
          => IF call'.raised
             THEN goals' = goals
             ELSE /\ goals \subseteq goals'
                  /\ Cardinality(goals') = Cardinality(goals) + 1
                  /\ \A n \in goals' \ goals :
                       /\ \A g \in goals : g.id # n.id
                       /\ \A f \in DOMAIN call'.goal_data : n[f] = call'.goal_data[f]]_vars

\* C37 witness: a create_goal call has returned, and two active goals with the
\* title of the request are stored, under different ids.
CreateGoalAddsOneWitness ==
    /\ call.op = "create_goal" /\ ~call.raised
    /\ \E g, h \in goals : /\ g.id # h.id
                           /\ g.title = call.goal_data.title /\ h.title = g.title
                           /\ g.status = "active" /\ h.status = "active"


====
